---- MODULE Spec2Model ----
(***************************************************************************)
(* Session controller (App component) and output normalizer                *)
(* (generateEmpenhoDescription) of the "gerador de texto de empenho".      *)
(*                                                                         *)
(* A text is a sequence of one-character strings, so that upper-casing,    *)
(* trimming, asterisk removal and prefix tests are computed character by   *)
(* character as the JavaScript string primitives compute them.             *)
(***************************************************************************)
EXTENDS Integers, Sequences, FiniteSets, TLC

VARIABLES
    status,         \* useState<ProcessingStatus>
    fileData,       \* useState<FileData | null>: <<>> is null, <<fd>> a value
    generatedText,  \* useState<string>
    errorMsg,       \* useState<string | null>
    isEditing,      \* useState(false)
    pending,        \* calls of generateEmpenhoDescription awaiting their result
    last            \* the handler that ran last, its argument and the state before it

vars == <<status, fileData, generatedText, errorMsg, isEditing, pending, last>>

session == <<status, fileData, generatedText, errorMsg, isEditing, pending>>

(***************************************************************************)
(* Bounds.                                                                 *)
(***************************************************************************)
\* longest run of free characters put before and after a head in a raw text
MaxLen == 2

\* most calls of generateEmpenhoDescription the model lets be in flight
MaxPending == 2

(***************************************************************************)
(* types.ts                                                                *)
(***************************************************************************)
IDLE == "IDLE"

PROCESSING == "PROCESSING"

SUCCESS == "SUCCESS"

ERROR == "ERROR"

ProcessingStatus == {IDLE, PROCESSING, SUCCESS, ERROR}

\* the null of errorMsg
Null == "null"

(***************************************************************************)
(* String primitives.                                                      *)
(***************************************************************************)
\* String.prototype.toUpperCase, per character: the letters that have an
\* upper-case form, and the one that expands to two characters.
UpperOf ==
    ("a" :> <<"A">>) @@ ("b" :> <<"B">>) @@ ("c" :> <<"C">>) @@ ("d" :> <<"D">>) @@
    ("e" :> <<"E">>) @@ ("f" :> <<"F">>) @@ ("g" :> <<"G">>) @@ ("h" :> <<"H">>) @@
    ("i" :> <<"I">>) @@ ("j" :> <<"J">>) @@ ("k" :> <<"K">>) @@ ("l" :> <<"L">>) @@
    ("m" :> <<"M">>) @@ ("n" :> <<"N">>) @@ ("o" :> <<"O">>) @@ ("p" :> <<"P">>) @@
    ("q" :> <<"Q">>) @@ ("r" :> <<"R">>) @@ ("s" :> <<"S">>) @@ ("t" :> <<"T">>) @@
    ("u" :> <<"U">>) @@ ("v" :> <<"V">>) @@ ("w" :> <<"W">>) @@ ("x" :> <<"X">>) @@
    ("y" :> <<"Y">>) @@ ("z" :> <<"Z">>) @@ ("ç" :> <<"Ç">>) @@ ("ã" :> <<"Ã">>) @@
    ("ó" :> <<"Ó">>) @@ ("á" :> <<"Á">>) @@ ("é" :> <<"É">>) @@ ("í" :> <<"Í">>) @@
    ("ú" :> <<"Ú">>) @@ ("â" :> <<"Â">>) @@ ("ê" :> <<"Ê">>) @@ ("ô" :> <<"Ô">>) @@
    ("õ" :> <<"Õ">>) @@ ("à" :> <<"À">>) @@ ("ß" :> <<"S", "S">>)

LowerCaseLetters == DOMAIN UpperOf

\* the characters String.prototype.trim removes
WhiteSpace == {" ", "\t", "\n"}

RECURSIVE toUpperCase(_)
toUpperCase(s) ==
    IF s = <<>> THEN <<>>
    ELSE (IF Head(s) \in LowerCaseLetters THEN UpperOf[Head(s)] ELSE <<Head(s)>>)
         \o toUpperCase(Tail(s))

RECURSIVE trimStart(_)
trimStart(s) ==
    IF s # <<>> /\ Head(s) \in WhiteSpace THEN trimStart(Tail(s)) ELSE s

RECURSIVE trimEnd(_)
trimEnd(s) ==
    IF s # <<>> /\ s[Len(s)] \in WhiteSpace
    THEN trimEnd(SubSeq(s, 1, Len(s) - 1))
    ELSE s

trim(s) == trimEnd(trimStart(s))

startsWith(s, p) ==
    /\ Len(s) >= Len(p)
    /\ SubSeq(s, 1, Len(p)) = p

\* s.replace(/pat/g, ''), pat a literal: the non-overlapping occurrences of
\* pat, found left to right, are removed.
RECURSIVE removeAll(_, _)
removeAll(s, pat) ==
    IF s = <<>> THEN <<>>
    ELSE IF startsWith(s, pat) THEN removeAll(SubSeq(s, Len(pat) + 1, Len(s)), pat)
    ELSE <<Head(s)>> \o removeAll(Tail(s), pat)

(***************************************************************************)
(* geminiService: the normalization of the model's answer.                 *)
(***************************************************************************)
requiredPrefix ==
    <<"P", "E", "L", "A", " ", "D", "E", "S", "P", "E", "S", "A", " ",
      "E", "M", "P", "E", "N", "H", "A", "D", "A">>

ReferenteWord ==
    <<"R", "E", "F", "E", "R", "E", "N", "T", "E">>

\* "PELA DESPESA EMPENHADA " of line 364
PrefixAndSpace ==
    <<"P", "E", "L", "A", " ", "D", "E", "S", "P", "E", "S", "A", " ",
      "E", "M", "P", "E", "N", "H", "A", "D", "A", " ">>

\* " REFERENTE A " of the template of line 366
ReferenteAInfix ==
    <<" ", "R", "E", "F", "E", "R", "E", "N", "T", "E", " ", "A", " ">>

\* A response of generateContent: its text field may be absent.
NoText == [present |-> FALSE, text |-> <<>>]

TextResponse(t) == [present |-> TRUE, text |-> t]

\* response.text || ""
textOrEmpty(response) ==
    IF response.present /\ response.text # <<>> THEN response.text ELSE <<>>

\* text.replace(/\*\*/g, '') only: the second pass left out
stripDoubleAsterisksOnly(t) == removeAll(t, <<"*", "*">>)

\* text.replace(/\*\*/g, '').replace(/\*/g, '')
stripAsterisks(t) == removeAll(removeAll(t, <<"*", "*">>), <<"*">>)

enforcePrefix(text) ==
    IF ~startsWith(text, requiredPrefix)
    THEN IF startsWith(text, ReferenteWord)
         THEN PrefixAndSpace \o text
         ELSE requiredPrefix \o ReferenteAInfix \o text
    ELSE text

\* lines 351-370 on a text
normalize(raw) == enforcePrefix(stripAsterisks(trim(toUpperCase(raw))))

\* lines 351-370 on a response
normalizeResponse(response) == normalize(textOrEmpty(response))

(***************************************************************************)
(* App: messages, files and the upload validation.                         *)
(***************************************************************************)
TooLargeMsg == "O arquivo é muito grande. O limite é 20MB."

InvalidTypeMsg == "Tipo de arquivo inválido. Use PDF ou Imagens (JPG, PNG)."

FalhaMsg == "Falha ao processar o documento. Verifique se o arquivo é válido e tente novamente."

UnknownErrorMsg == "Ocorreu um erro desconhecido."

ErrorMsgs == {Null, TooLargeMsg, InvalidTypeMsg, FalhaMsg, UnknownErrorMsg}

MiB == 1024 * 1024

\* 20 * 1024 * 1024 of line 20
MaxFileSize == 20 * 1024 * 1024

validTypes == {"application/pdf", "image/png", "image/jpeg", "image/jpg", "image/webp"}

\* declared MIME types a picked or dropped file may carry
Types == validTypes \cup {"image/gif", "text/plain", ""}

\* file.type.startsWith('image/'), over Types
isImageType(t) == t \in {"image/png", "image/jpeg", "image/jpg", "image/webp", "image/gif"}

\* byte sizes around the limit
Sizes == {5 * MiB, MaxFileSize, MaxFileSize + 1, 25 * MiB}

Files == [size : Sizes, type : Types]

PdfIconUrl == "https://upload.wikimedia.org/wikipedia/commons/8/87/PDF_file_icon.svg"

\* lines 32-37
previewUrlOf(file) ==
    IF isImageType(file.type) THEN "blob:objectURL"
    ELSE IF file.type = "application/pdf" THEN PdfIconUrl
    ELSE "undefined"

\* file.size >= limit instead of >
tooLargeInclusive(file) == file.size >= MaxFileSize

\* line 20
tooLarge(file) == file.size > MaxFileSize

\* line 27
invalidType(file) == file.type \notin validTypes

FileDataOf(file) == [file |-> file, previewUrl |-> previewUrlOf(file)]

\* the values fileData holds when it is not null
AcceptedFiles == {f \in Files : ~tooLarge(f) /\ ~invalidType(f)}

(***************************************************************************)
(* App: the handlers, as they act on the state cells.                      *)
(***************************************************************************)
\* processFile that moves to ERROR when it rejects
processFileRejectToError(file) ==
    IF tooLarge(file) \/ invalidType(file)
    THEN /\ errorMsg' = (IF tooLarge(file) THEN TooLargeMsg ELSE InvalidTypeMsg)
         /\ status' = ERROR
         /\ UNCHANGED <<fileData, generatedText, isEditing, pending>>
    ELSE /\ fileData' = <<FileDataOf(file)>>
         /\ errorMsg' = Null
         /\ status' = IDLE
         /\ generatedText' = <<>>
         /\ UNCHANGED <<isEditing, pending>>

\* processFile without setGeneratedText('')
processFileKeepText(file) ==
    IF tooLarge(file) \/ invalidType(file)
    THEN /\ errorMsg' = (IF tooLarge(file) THEN TooLargeMsg ELSE InvalidTypeMsg)
         /\ UNCHANGED <<status, fileData, generatedText, isEditing, pending>>
    ELSE /\ fileData' = <<FileDataOf(file)>>
         /\ errorMsg' = Null
         /\ status' = IDLE
         /\ UNCHANGED <<generatedText, isEditing, pending>>

\* lines 18-43
processFile(file) ==
    IF tooLarge(file)
    THEN /\ errorMsg' = TooLargeMsg
         /\ UNCHANGED <<status, fileData, generatedText, isEditing, pending>>
    ELSE IF invalidType(file)
    THEN /\ errorMsg' = InvalidTypeMsg
         /\ UNCHANGED <<status, fileData, generatedText, isEditing, pending>>
    ELSE /\ fileData' = <<FileDataOf(file)>>
         /\ errorMsg' = Null
         /\ status' = IDLE
         /\ generatedText' = <<>>
         /\ UNCHANGED <<isEditing, pending>>

\* handleProcess up to its await, lines 74-81: the call of
\* generateEmpenhoDescription is started and left pending.
handleProcess ==
    IF fileData = <<>>
    THEN UNCHANGED session
    ELSE /\ status' = PROCESSING
         /\ errorMsg' = Null
         /\ pending' = Append(pending, [file |-> fileData[1].file])
         /\ UNCHANGED <<fileData, generatedText, isEditing>>

removeAt(q, i) == SubSeq(q, 1, i - 1) \o SubSeq(q, i + 1, Len(q))

\* the continuation of lines 82-84 without setIsEditing(true)
resolvedNoEditing(i, response) ==
    /\ generatedText' = normalizeResponse(response)
    /\ status' = SUCCESS
    /\ pending' = removeAt(pending, i)
    /\ UNCHANGED <<fileData, errorMsg, isEditing>>

\* handleProcess after its await, lines 81-84: the i-th pending call
\* returns the normalized text of the model's response.
resolved(i, response) ==
    /\ generatedText' = normalizeResponse(response)
    /\ status' = SUCCESS
    /\ isEditing' = TRUE
    /\ pending' = removeAt(pending, i)
    /\ UNCHANGED <<fileData, errorMsg>>

\* what generateEmpenhoDescription throws, lines 371-374: always an Error
\* carrying the fixed message
thrown == [isError |-> TRUE, message |-> FalhaMsg]

\* handleProcess after its await, lines 85-88: the i-th pending call throws.
rejected(i) ==
    /\ errorMsg' = (IF thrown.isError THEN thrown.message ELSE UnknownErrorMsg)
    /\ status' = ERROR
    /\ pending' = removeAt(pending, i)
    /\ UNCHANGED <<fileData, generatedText, isEditing>>

\* handleReset without setIsEditing(false)
handleResetKeepEditing ==
    /\ fileData' = <<>>
    /\ generatedText' = <<>>
    /\ status' = IDLE
    /\ errorMsg' = Null
    /\ UNCHANGED <<isEditing, pending>>

\* lines 108-117
handleReset ==
    /\ fileData' = <<>>
    /\ generatedText' = <<>>
    /\ status' = IDLE
    /\ errorMsg' = Null
    /\ isEditing' = FALSE
    /\ UNCHANGED pending

\* the textarea's onChange without toUpperCase
textareaOnChangeAsTyped(value) ==
    /\ generatedText' = value
    /\ UNCHANGED <<status, fileData, errorMsg, isEditing, pending>>

\* line 241
textareaOnChange(value) ==
    /\ generatedText' = toUpperCase(value)
    /\ UNCHANGED <<status, fileData, errorMsg, isEditing, pending>>

(***************************************************************************)
(* App: what the rendered interface lets the user do.                      *)
(***************************************************************************)
\* line 138: the drop zone and the file input exist only without a candidate
uploadZoneRendered == fileData = <<>>

\* a "Gerar Texto" button that is never disabled
gerarTextoNeverDisabled == FALSE

\* line 195
gerarTextoDisabled == status = PROCESSING

\* a reset button that is never disabled
resetNeverDisabled == FALSE

\* line 187
resetDisabled == status = PROCESSING

\* line 225: the textarea and "Limpar tudo" exist only in SUCCESS
resultSectionRendered == status = SUCCESS

\* lines 170-187 and 254: the two buttons bound to handleReset
resetClickable ==
    \/ fileData # <<>> /\ ~resetDisabled
    \/ resultSectionRendered

(***************************************************************************)
(* Inputs.                                                                 *)
(***************************************************************************)
Escritorio ==
    <<"m", "a", "t", "e", "r", "i", "a", "l", " ", "d", "e", " ",
      "e", "s", "c", "r", "i", "t", "ó", "r", "i", "o">>

ReferenteTeste ==
    <<"R", "E", "F", "E", "R", "E", "N", "T", "E", " ", "A", " ", "T", "E", "S", "T", "E">>

LowerPrefix ==
    <<"p", "e", "l", "a", " ", "d", "e", "s", "p", "e", "s", "a", " ",
      "e", "m", "p", "e", "n", "h", "a", "d", "a", " ",
      "r", "e", "f", "e", "r", "e", "n", "t", "e", " ", "a", " ",
      "c", "o", "m", "p", "r", "a", " ", "d", "e", " ", "p", "a", "p", "e", "l">>

Aquisicao ==
    <<"A", "q", "u", "i", "s", "i", "ç", "ã", "o", " ", "d", "e", " ",
      "*", "*", "m", "a", "t", "e", "r", "i", "a", "l", "*", "*", " ",
      "d", "e", " ", "l", "i", "m", "p", "e", "z", "a">>

\* what the remote model answers in the session
Responses ==
    {NoText, TextResponse(<<>>), TextResponse(Escritorio), TextResponse(ReferenteTeste),
     TextResponse(<<"*", "a", "*", " ">>)}

\* what the user leaves in the textarea
EditTexts == {<<>>, <<"o", "k">>, <<"a", "*", "ß">>}

\* the free characters of a raw text
Alphabet == {"a", "Z", " ", "*"}

RECURSIVE TextsUpTo(_)
TextsUpTo(n) ==
    IF n = 0 THEN {<<>>}
    ELSE LET shorter == TextsUpTo(n - 1)
         IN  shorter \cup {Append(t, c) : t \in shorter, c \in Alphabet}

\* the openings a raw text is built around
Heads == {<<>>, requiredPrefix, ReferenteWord, LowerPrefix, ReferenteTeste, Aquisicao, Escritorio}

\* the raw texts the normalizer is run on
RawTexts == {a \o h \o b : a \in TextsUpTo(MaxLen), h \in Heads, b \in TextsUpTo(MaxLen)}

RawResponses == {NoText} \cup {TextResponse(t) : t \in RawTexts}

(***************************************************************************)
(* The state machine.                                                      *)
(***************************************************************************)
before ==
    [status |-> status, fileData |-> fileData, generatedText |-> generatedText,
     errorMsg |-> errorMsg, isEditing |-> isEditing, pending |-> pending]

Record(op, file, text, present) ==
    last' = [op |-> op, file |-> file, text |-> text, present |-> present, pre |-> before]

\* lines 8-13
Init ==
    /\ status = IDLE
    /\ fileData = <<>>
    /\ generatedText = <<>>
    /\ errorMsg = Null
    /\ isEditing = FALSE
    /\ pending = <<>>
    /\ last = [op |-> "none", file |-> <<>>, text |-> <<>>, present |-> FALSE, pre |-> before]

\* handleFileChange, handleDrop: a file is picked or dropped
SelectFile ==
    /\ uploadZoneRendered
    /\ \E f \in Files :
         /\ processFile(f)
         /\ Record("processFile", <<f>>, <<>>, FALSE)

\* start-generation: handleProcess runs unless its button is disabled; with no
\* candidate the handler returns at line 75
StartGeneration ==
    /\ ~gerarTextoDisabled
    /\ Len(pending) < MaxPending
    /\ handleProcess
    /\ Record("handleProcess", <<>>, <<>>, FALSE)

Answered(responses) ==
    \E i \in 1..Len(pending), r \in responses :
       /\ resolved(i, r)
       /\ Record("resolved", <<pending[i].file>>, r.text, r.present)

\* the remote model answers a pending call
GenerationSucceeds == Answered(Responses)

\* reading the file or the remote call fails
GenerationFails ==
    \E i \in 1..Len(pending) :
       /\ rejected(i)
       /\ Record("rejected", <<pending[i].file>>, <<>>, FALSE)

ClickReset ==
    /\ resetClickable
    /\ handleReset
    /\ Record("handleReset", <<>>, <<>>, FALSE)

EditText ==
    /\ resultSectionRendered
    /\ \E t \in EditTexts :
         /\ textareaOnChange(t)
         /\ Record("textareaOnChange", <<>>, t, TRUE)

Next ==
    \/ SelectFile
    \/ StartGeneration
    \/ GenerationSucceeds
    \/ GenerationFails
    \/ ClickReset
    \/ EditText

Spec == Init /\ [][Next]_vars

(***************************************************************************)
(* The normalizer alone: one call awaits the model's answer, which is any  *)
(* raw text.                                                               *)
(***************************************************************************)
InitAwaiting ==
    /\ status = PROCESSING
    /\ fileData = <<FileDataOf([size |-> 5 * MiB, type |-> "image/png"])>>
    /\ generatedText = <<>>
    /\ errorMsg = Null
    /\ isEditing = FALSE
    /\ pending = <<[file |-> fileData[1].file]>>
    /\ last = [op |-> "handleProcess", file |-> <<>>, text |-> <<>>, present |-> FALSE,
               pre |-> [before EXCEPT !.status = IDLE, !.pending = <<>>]]

AnswerAnyRawText == Answered(RawResponses)

NextNormalize == AnswerAnyRawText

SpecNormalize == InitAwaiting /\ [][NextNormalize]_vars

(***************************************************************************)
(* The handlers alone: processFile and handleReset called on any values of *)
(* the state cells.                                                        *)
(***************************************************************************)
SomeTexts == {<<>>, normalize(Escritorio), <<"O", "K">>}

InitAnyCells ==
    /\ status \in ProcessingStatus
    /\ fileData \in {<<>>} \cup {<<FileDataOf(f)>> : f \in AcceptedFiles}
    /\ generatedText \in SomeTexts
    /\ errorMsg \in ErrorMsgs
    /\ isEditing \in BOOLEAN
    /\ pending \in {<<>>, <<[file |-> [size |-> 5 * MiB, type |-> "image/png"]]>>}
    /\ last = [op |-> "none", file |-> <<>>, text |-> <<>>, present |-> FALSE, pre |-> before]

CallProcessFile ==
    \E f \in Files :
       /\ processFile(f)
       /\ Record("processFile", <<f>>, <<>>, FALSE)

CallHandleReset ==
    /\ handleReset
    /\ Record("handleReset", <<>>, <<>>, FALSE)

NextHandlers ==
    \/ CallProcessFile
    \/ CallHandleReset

SpecHandlers == InitAnyCells /\ [][NextHandlers]_vars

TypeOK ==
    /\ status \in ProcessingStatus
    /\ Len(fileData) <= 1
    /\ errorMsg \in ErrorMsgs
    /\ isEditing \in BOOLEAN
    /\ Len(pending) <= MaxPending

(***************************************************************************)
(* Properties.                                                             *)
(***************************************************************************)
Chars(s) == {s[i] : i \in 1..Len(s)}

NotAsterisk(c) == c # "*"

\* the file handed to the handler that ran last
lastFile == last.file[1]

\* the raw text of the answer handled last
lastRaw == IF last.present THEN last.text ELSE <<>>

EscritorioOut ==
    <<"P", "E", "L", "A", " ", "D", "E", "S", "P", "E", "S", "A", " ",
      "E", "M", "P", "E", "N", "H", "A", "D", "A", " ",
      "R", "E", "F", "E", "R", "E", "N", "T", "E", " ", "A", " ",
      "M", "A", "T", "E", "R", "I", "A", "L", " ", "D", "E", " ",
      "E", "S", "C", "R", "I", "T", "Ó", "R", "I", "O">>

\* C1: the normalization is idempotent: normalizing a text the normalizer
\* produced, for any raw text, gives that text back.
NormalizeIdempotent ==
    last.op = "resolved" => normalize(generatedText) = generatedText

\* C2: a generation that fails leaves the session in Error with the failure
\* message stored and with an empty result text.
FailureLeavesNoResult ==
    last.op = "rejected" =>
        /\ status = ERROR
        /\ errorMsg = FalhaMsg
        /\ generatedText = <<>>

\* C3: at most one call of the remote model is in flight, and one is in
\* flight exactly while the session is Processing.
AtMostOneInFlight ==
    /\ Len(pending) <= 1
    /\ status = PROCESSING <=> Len(pending) = 1

\* a second generation for the same candidate is in flight, alone
SecondGenerationInFlight ==
    /\ status = PROCESSING
    /\ Len(pending) = 1
    /\ last.op = "handleProcess"
    /\ last.pre.status = SUCCESS

\* C4: after handleReset, whatever the cells held, there is no candidate,
\* the result text is empty, there is no error, the status is Idle and edit
\* mode is off.
ResetClearsSession ==
    last.op = "handleReset" =>
        /\ fileData = <<>>
        /\ generatedText = <<>>
        /\ errorMsg = Null
        /\ status = IDLE
        /\ isEditing = FALSE

ResetWhileProcessing ==
    /\ last.op = "handleReset"
    /\ last.pre.status = PROCESSING
    /\ last.pre.fileData # <<>>
    /\ last.pre.generatedText # <<>>
    /\ last.pre.errorMsg # Null
    /\ last.pre.isEditing

\* the raw text upper-cased, trimmed, and with every asterisk dropped
CleanedRaw == SelectSeq(trim(toUpperCase(lastRaw)), NotAsterisk)

\* C5: the normalizer's result is the three-branch rule applied to the
\* upper-cased, trimmed, asterisk-free text; it starts with the required
\* prefix and holds no asterisk and no lower-case letter.
NormalizeThreeBranches ==
    last.op = "resolved" =>
        /\ generatedText =
              IF startsWith(CleanedRaw, requiredPrefix) THEN CleanedRaw
              ELSE IF startsWith(CleanedRaw, ReferenteWord)
                   THEN requiredPrefix \o <<" ">> \o CleanedRaw
                   ELSE requiredPrefix \o <<" ">> \o ReferenteWord \o <<" ", "A", " ">>
                        \o CleanedRaw
        /\ SubSeq(generatedText, 1, 22) = requiredPrefix
        /\ "*" \notin Chars(generatedText)
        /\ Chars(generatedText) \cap LowerCaseLetters = {}

ReferenteBranchTaken ==
    /\ last.op = "resolved"
    /\ "*" \in Chars(lastRaw)
    /\ Chars(lastRaw) \cap LowerCaseLetters # {}
    /\ startsWith(CleanedRaw, ReferenteWord)
    /\ generatedText = PrefixAndSpace \o CleanedRaw

\* C6: processFile rejects for size exactly the files above 20 MiB, whatever
\* their type; it rejects for type the files within the size limit whose type
\* is not an accepted one; it stores the file as the candidate exactly when
\* neither applies.
ValidatorDecides ==
    last.op = "processFile" =>
        LET oversized == lastFile.size > 20 * 1024 * 1024
            badType == lastFile.type \notin
                         {"application/pdf", "image/png", "image/jpeg", "image/jpg", "image/webp"}
        IN  /\ errorMsg = TooLargeMsg <=> oversized
            /\ errorMsg = InvalidTypeMsg <=> (~oversized /\ badType)
            /\ (fileData # <<>> /\ fileData[1].file = lastFile) <=> (~oversized /\ ~badType)
            /\ (oversized \/ badType) => fileData = last.pre.fileData

ExactlyTwentyMiBAccepted ==
    /\ last.op = "processFile"
    /\ lastFile.size = 20 * 1024 * 1024
    /\ fileData # <<>>
    /\ fileData[1].file = lastFile

fileRejected(f) == f.size > 20 * 1024 * 1024 \/ f.type \notin validTypes

\* C7: a rejected file leaves the status Idle and no candidate, attaches only
\* an error message, and no call of the remote model is ever made for it; a
\* start-generation with no candidate changes nothing.
RejectionStaysIdle ==
    /\ (last.op = "processFile" /\ fileRejected(lastFile)) =>
          /\ status = IDLE
          /\ last.pre.status = IDLE
          /\ fileData = <<>>
          /\ errorMsg \in {TooLargeMsg, InvalidTypeMsg}
          /\ generatedText = last.pre.generatedText
          /\ isEditing = last.pre.isEditing
          /\ pending = <<>>
    /\ \A i \in 1..Len(pending) : ~fileRejected(pending[i].file)
    /\ (last.op = "handleProcess" /\ last.pre.fileData = <<>>) =>
          /\ before = last.pre
          /\ pending = <<>>

StartAfterRejection ==
    /\ last.op = "handleProcess"
    /\ last.pre.fileData = <<>>
    /\ last.pre.errorMsg = TooLargeMsg
    /\ status = IDLE

\* C8: accepting a valid file leaves that file as the candidate, the status
\* Idle, the result text empty and no error, whatever the cells held.
AcceptanceClearsResult ==
    (last.op = "processFile" /\ ~fileRejected(lastFile)) =>
        /\ fileData # <<>>
        /\ fileData[1].file = lastFile
        /\ status = IDLE
        /\ generatedText = <<>>
        /\ errorMsg = Null

AcceptedOverOtherResult ==
    /\ last.op = "processFile"
    /\ ~fileRejected(lastFile)
    /\ last.pre.status = SUCCESS
    /\ last.pre.generatedText # <<>>
    /\ last.pre.errorMsg # Null
    /\ last.pre.fileData # <<>>
    /\ last.pre.fileData[1].file # lastFile
    /\ fileData[1].file = lastFile

\* C9: with a candidate, start-generation from Idle, Success or Error gives
\* Processing with no error; an answer of the model, whatever its text and
\* also without text, gives Success with the normalized text and edit mode
\* on, never Error.
GenerationSucceedsToSuccess ==
    /\ (last.op = "handleProcess" /\ last.pre.fileData # <<>>) =>
          /\ last.pre.status \in {IDLE, SUCCESS, ERROR}
          /\ status = PROCESSING
          /\ errorMsg = Null
    /\ last.op = "resolved" =>
          /\ last.pre.status = PROCESSING
          /\ status = SUCCESS
          /\ errorMsg = Null
          /\ isEditing = TRUE
          /\ generatedText = normalize(lastRaw)
          /\ lastRaw = Escritorio => generatedText = EscritorioOut

AbsentAnswerSucceeds ==
    /\ last.op = "resolved"
    /\ ~last.present
    /\ status = SUCCESS
    /\ generatedText = requiredPrefix \o ReferenteAInfix

\* C10: an edit keeps Success, the candidate and the error, and sets the
\* result text to the upper-casing of the typed text; the result text holds
\* no lower-case letter in any state.
EditUpperCasesOnly ==
    /\ last.op = "textareaOnChange" =>
          /\ last.pre.status = SUCCESS
          /\ status = SUCCESS
          /\ fileData = last.pre.fileData
          /\ errorMsg = last.pre.errorMsg
          /\ generatedText = toUpperCase(last.text)
    /\ Chars(generatedText) \cap LowerCaseLetters = {}

EditedWithoutPrefix ==
    /\ last.op = "textareaOnChange"
    /\ Chars(last.text) \cap LowerCaseLetters # {}
    /\ "*" \in Chars(generatedText)
    /\ ~startsWith(generatedText, requiredPrefix)
    /\ status = SUCCESS

\* C11: a status of Processing, Success or Error implies a candidate; every
\* call in flight was started for the current candidate; a completion is
\* applied while the candidate it was started for is still the current one;
\* reset and file selection never run while a call is in flight.
GenerationTiedToCandidate ==
    /\ status \in {PROCESSING, SUCCESS, ERROR} => fileData # <<>>
    /\ \A i \in 1..Len(pending) :
          /\ fileData # <<>>
          /\ pending[i].file = fileData[1].file
    /\ last.op \in {"resolved", "rejected"} =>
          /\ last.pre.status = PROCESSING
          /\ last.pre.fileData # <<>>
          /\ last.pre.fileData[1].file = lastFile
          /\ fileData = last.pre.fileData
    /\ last.op \in {"handleReset", "processFile"} =>
          /\ last.pre.status # PROCESSING
          /\ last.pre.pending = <<>>
    /\ last.op = "processFile" => last.pre.fileData = <<>>

\* the model answers for a 20 MiB candidate that is still the current one
CompletedForCurrentCandidate ==
    /\ last.op = "resolved"
    /\ status = SUCCESS
    /\ fileData # <<>>
    /\ fileData[1].file = lastFile
    /\ lastFile.size = MaxFileSize
    /\ pending = <<>>

====
